---- MODULE Spec2Model ----
(***************************************************************************)
(* Model of the LeetCode submission aggregator endpoint.                    *)
(*                                                                         *)
(* Two handler files exist in the repository: src/unnamed/part_000 (with   *)
(* the legacy bare-array mode) and src/api/fetchSolved.js (without it).    *)
(* The variable impl says which file serves the request.                   *)
(*                                                                         *)
(* JavaScript strings that are trimmed or tested for emptiness are         *)
(* sequences of one-character strings, so that trim() is computed.         *)
(***************************************************************************)
EXTENDS Integers, Sequences, FiniteSets, TLC

----------------------------------------------------------------------------
(* Values *)

\* undefined / null for a string-valued field
Missing == <<"undefined">>

\* the empty string
Empty == <<>>

Range(s) == {s[i] : i \in 1..Len(s)}

NoDup(s) == \A i, j \in 1..Len(s) : s[i] = s[j] => i = j

\* JavaScript truthiness of a string-valued field
Truthy(v) == v # Missing /\ v # Empty

RECURSIVE TrimStart(_)
TrimStart(s) ==
  IF s = <<>> THEN <<>>
  ELSE IF Head(s) = " " THEN TrimStart(Tail(s)) ELSE s

RECURSIVE TrimEnd(_)
TrimEnd(s) ==
  IF s = <<>> THEN <<>>
  ELSE IF s[Len(s)] = " " THEN TrimEnd(SubSeq(s, 1, Len(s) - 1)) ELSE s

\* String.prototype.trim
Trim(s) == TrimEnd(TrimStart(s))

\* Array.prototype.filter(Boolean) on an array of strings
RECURSIVE FilterBoolean(_)
FilterBoolean(s) ==
  IF s = <<>> THEN <<>>
  ELSE IF Truthy(Head(s)) THEN <<Head(s)>> \o FilterBoolean(Tail(s))
       ELSE FilterBoolean(Tail(s))

\* Set.prototype.add on a Set kept in insertion order
SetAdd(set, v) == IF v \in Range(set) THEN set ELSE Append(set, v)

\* Array.from(new Set(array))
RECURSIVE ArrayToSet(_)
ArrayToSet(s) ==
  IF s = <<>> THEN <<>>
  ELSE SetAdd(ArrayToSet(SubSeq(s, 1, Len(s) - 1)), s[Len(s)])

----------------------------------------------------------------------------
(* dedupeSlugs *)

RECURSIVE MapCleanSlug(_)
MapCleanSlug(slugs) ==
  IF slugs = <<>> THEN <<>>
  ELSE <<Trim(IF Truthy(Head(slugs)) THEN Head(slugs) ELSE Empty)>>
         \o MapCleanSlug(Tail(slugs))

dedupeSlugs(slugs) == ArrayToSet(FilterBoolean(MapCleanSlug(slugs)))

----------------------------------------------------------------------------
(* fetchRecentSubmissions: deduplication by titleSlug and the final sort *)

\* index of slug in the Map (kept in insertion order), 0 when absent
MapIndex(map, slug) ==
  IF \E i \in 1..Len(map) : map[i].titleSlug = slug
  THEN CHOOSE i \in 1..Len(map) : map[i].titleSlug = slug
  ELSE 0

\* mutant: a later record always replaces the kept one
LastWins(timestamp, existing) == TRUE

\* mutant: the comparison is turned around, the oldest record is kept
OlderThan(timestamp, existing) == timestamp < existing.timestamp

\* strict comparison that decides whether a later record replaces the kept one
NewerThan(timestamp, existing) == timestamp > existing.timestamp

\* one iteration of list.forEach
RecentStep(map, item) ==
  IF ~Truthy(item.titleSlug) THEN map
  ELSE LET slug == Trim(item.titleSlug)
           i    == MapIndex(map, slug)
           rec  == [title     |-> IF Truthy(item.title) THEN item.title ELSE slug,
                    titleSlug |-> slug,
                    timestamp |-> item.timestamp]
       IN IF slug = Empty THEN map
          ELSE IF i = 0 THEN Append(map, rec)
          ELSE IF NewerThan(item.timestamp, map[i]) THEN [map EXCEPT ![i] = rec]
          ELSE map

RECURSIVE RecentFold(_, _)
RecentFold(map, list) ==
  IF list = <<>> THEN map
  ELSE RecentFold(RecentStep(map, Head(list)), Tail(list))

\* insertion of x into a sequence sorted by descending timestamp, after its equals
RECURSIVE InsertDesc(_, _)
InsertDesc(sorted, x) ==
  IF sorted = <<>> THEN <<x>>
  ELSE IF x.timestamp > Head(sorted).timestamp THEN <<x>> \o sorted
       ELSE <<Head(sorted)>> \o InsertDesc(Tail(sorted), x)

\* Array.prototype.sort((a, b) => b.timestamp - a.timestamp), a stable sort
RECURSIVE SortDesc(_)
SortDesc(s) ==
  IF s = <<>> THEN <<>>
  ELSE InsertDesc(SortDesc(SubSeq(s, 1, Len(s) - 1)), s[Len(s)])

\* the part of fetchRecentSubmissions after graphqlRequest has returned
dedupeRecent(list) == SortDesc(RecentFold(<<>>, list))

----------------------------------------------------------------------------
(* Program constants *)

\* const pageSize = 20
pageSize == 20

\* const maxPages = 500
maxPages == 500

----------------------------------------------------------------------------
(* graphqlRequest *)

\* json?.data || {} when the response carries no data
NoData == [present |-> FALSE]

Threw(message) == [threw |-> TRUE, message |-> message, data |-> NoData]

Returned(data) == [threw |-> FALSE, message |-> "", data |-> data]

\* mutant: the HTTP status is not looked at
graphqlRequestTextNoStatus(response) ==
  IF response.raw = "nonjson" THEN Threw("LeetCode GraphQL returned non-JSON response")
  ELSE IF response.raw = "json" /\ response.errors > 0
       THEN Threw("LeetCode GraphQL returned errors")
  ELSE Returned(IF response.raw = "json" THEN response.data ELSE NoData)

\* src/unnamed/part_000: the body is read as text; an empty body parses as {}
graphqlRequestText(response) ==
  IF response.raw = "nonjson" THEN Threw("LeetCode GraphQL returned non-JSON response")
  ELSE IF ~response.ok THEN Threw("LeetCode GraphQL request failed")
  ELSE IF response.raw = "json" /\ response.errors > 0
       THEN Threw("LeetCode GraphQL returned errors")
  ELSE Returned(IF response.raw = "json" THEN response.data ELSE NoData)

\* mutant: the errors array of the body is not looked at
graphqlRequestJsonNoErrors(response) ==
  IF response.raw # "json" THEN Threw("Unexpected end of JSON input")
  ELSE IF ~response.ok THEN Threw("LeetCode GraphQL request failed")
  ELSE Returned(response.data)

\* src/api/fetchSolved.js: response.json() rejects on an empty or non-JSON body
graphqlRequestJson(response) ==
  IF response.raw # "json" THEN Threw("Unexpected end of JSON input")
  ELSE IF ~response.ok THEN Threw("LeetCode GraphQL request failed")
  ELSE IF response.errors > 0 THEN Threw("LeetCode GraphQL returned errors")
  ELSE Returned(response.data)

graphqlRequest(file, response) ==
  IF file = "part_000" THEN graphqlRequestText(response)
  ELSE graphqlRequestJson(response)

----------------------------------------------------------------------------
(* fetchAllAcceptedSlugsFromGraphQL / fetchAllAcceptedSlugs: one page *)

\* Array.isArray(submissionList?.submissions) ? submissionList.submissions : []
GraphQLSubmissions(data) ==
  IF data.present /\ data.isArray THEN data.submissions ELSE <<>>

\* submissionList?.hasNext
GraphQLHasNext(data) == data.present /\ data.hasNext

\* mutant: every status counts as solved
AnyStatus(status) == TRUE

\* the status that counts as solved
IsAccepted(status) == status = "Accepted"

\* submissions.forEach(...) of the GraphQL fetcher
RECURSIVE GraphQLCollect(_, _)
GraphQLCollect(accepted, submissions) ==
  IF submissions = <<>> THEN accepted
  ELSE LET submission == Head(submissions)
           next == IF ~Truthy(submission.titleSlug) THEN accepted
                   ELSE IF ~IsAccepted(submission.statusDisplay) THEN accepted
                   ELSE SetAdd(accepted, Trim(submission.titleSlug))
       IN GraphQLCollect(next, Tail(submissions))

\* the slugs one page of the GraphQL source contributes: titleSlug present, status
\* 'Accepted', and something left after trim()
GraphQLAcceptedOn(submissions) ==
  {Trim(submissions[i].titleSlug) :
     i \in {j \in 1..Len(submissions) :
              /\ submissions[j].titleSlug # Missing
              /\ submissions[j].statusDisplay = "Accepted"}} \ {Empty}

\* mutant: the array is returned without filter(Boolean)
GraphQLResultUnfiltered(accepted) == accepted

\* return Array.from(accepted).filter(Boolean)
GraphQLResult(accepted) == FilterBoolean(accepted)

----------------------------------------------------------------------------
(* fetchAllAcceptedSlugsFromPublicApi: one page *)

\* Array.isArray(data?.submissions_dump) ? data.submissions_dump : []
PublicApiSubmissions(data) ==
  IF data.present /\ data.isArray THEN data.submissions_dump ELSE <<>>

\* Boolean(data?.has_next)
PublicApiHasNext(data) == data.present /\ data.has_next

\* submissions.forEach(...) of the REST fetcher
RECURSIVE PublicApiCollect(_, _)
PublicApiCollect(accepted, submissions) ==
  IF submissions = <<>> THEN accepted
  ELSE LET submission == Head(submissions)
           slug   == IF submission.title_slug # Missing
                     THEN Trim(submission.title_slug) ELSE Empty
           status == IF submission.status_display # ""
                     THEN submission.status_display ELSE submission.statusDisplay
           next   == IF slug = Empty THEN accepted
                     ELSE IF ~IsAccepted(status) THEN accepted
                     ELSE SetAdd(accepted, slug)
       IN PublicApiCollect(next, Tail(submissions))

\* the slugs one page of the REST source contributes: title_slug a string with
\* something left after trim(), status_display || statusDisplay equal to 'Accepted'
PublicApiAcceptedOn(submissions) ==
  {Trim(submissions[i].title_slug) :
     i \in {j \in 1..Len(submissions) :
              /\ submissions[j].title_slug # Missing
              /\ \/ submissions[j].status_display = "Accepted"
                 \/ /\ submissions[j].status_display = ""
                    /\ submissions[j].statusDisplay = "Accepted"}} \ {Empty}

\* return Array.from(accepted)
PublicApiResult(accepted) == accepted

\* mutant: the loop condition is page <= maxPages
LoopEndsOffByOne(hasNext, submissions, pg) ==
  \/ ~hasNext
  \/ Len(submissions) = 0
  \/ pg + 1 > maxPages

\* if (!hasNext || submissions.length === 0) break;  and the for loop's page < maxPages
LoopEnds(hasNext, submissions, pg) ==
  \/ ~hasNext
  \/ Len(submissions) = 0
  \/ pg + 1 >= maxPages

----------------------------------------------------------------------------
(* Inputs: the request and the upstream responses *)

SlugA == <<"a">>
SlugB == <<"b">>
SlugAPadded == <<" ", "a", " ">>
SlugBPadded == <<" ", "b", " ">>
Blank == <<" ">>
UserBob == <<" ", "b", "o", "b", " ">>

Files == {"part_000", "fetchSolved"}

Methods == {"OPTIONS", "GET", "PUT", "POST"}

\* req.body undefined: no field can be read
NoBody == [hasBody |-> FALSE, username |-> Missing,
           responseFormat |-> "undefined", includeFullHistory |-> "undefined"]

\* (responseFormat, includeFullHistory) as sent by the old and the new frontend
Flags == {<<"undefined", "undefined">>, <<"v2", "undefined">>, <<"undefined", "true">>}

Bodies ==
  {NoBody} \cup
  {[hasBody |-> TRUE, username |-> u, responseFormat |-> f[1],
    includeFullHistory |-> f[2]] : u \in {Missing, Empty, Blank, UserBob}, f \in Flags}

Requests == [method : Methods, body : Bodies]

Item(slug, ts) == [title |-> Missing, titleSlug |-> slug, timestamp |-> ts]

\* recentSubmissionList / recentAcSubmissionList values of the upstream
RecentData ==
  { [present |-> TRUE, isArray |-> FALSE, list |-> <<>>],
    [present |-> TRUE, isArray |-> TRUE, list |-> <<>>],
    [present |-> TRUE, isArray |-> TRUE,
     list |-> <<Item(SlugA, 1), Item(SlugA, 5), Item(SlugBPadded, 2), Item(Missing, 9)>>] }

Sub(slug, status) == [titleSlug |-> slug, statusDisplay |-> status]

GraphQLPages ==
  { <<>>,
    <<Sub(SlugAPadded, "Accepted")>>,
    <<Sub(Blank, "Accepted"), Sub(SlugB, "Wrong Answer"), Sub(Missing, "Accepted")>> }

\* submissionList values of the upstream
GraphQLPageData ==
  { [present |-> TRUE, isArray |-> FALSE, hasNext |-> TRUE, submissions |-> <<>>] } \cup
  [present : {TRUE}, isArray : {TRUE}, hasNext : BOOLEAN, submissions : GraphQLPages]

\* HTTP responses of the GraphQL endpoint to a query whose data is drawn from D
GraphQLResponses(D) ==
  [ok : {TRUE}, raw : {"json"}, errors : {0}, data : D] \cup
  [ok : {FALSE}, raw : {"json", "nonjson"}, errors : {0}, data : {NoData}] \cup
  [ok : {TRUE}, raw : {"json"}, errors : {1}, data : {NoData}] \cup
  [ok : {TRUE}, raw : {"empty", "nonjson"}, errors : {0}, data : {NoData}]

Dump(slug, display, camel) ==
  [title_slug |-> slug, status_display |-> display, statusDisplay |-> camel]

PublicApiPages ==
  { <<>>,
    <<Dump(SlugAPadded, "", "Accepted")>>,
    <<Dump(Blank, "Accepted", ""), Dump(SlugB, "Wrong Answer", "Accepted"),
      Dump(Missing, "Accepted", "")>> }

PublicApiData ==
  { [present |-> TRUE, isArray |-> FALSE, has_next |-> TRUE, submissions_dump |-> <<>>] } \cup
  [present : {TRUE}, isArray : {TRUE}, has_next : BOOLEAN, submissions_dump : PublicApiPages]

\* HTTP responses of the REST endpoint
PublicApiResponses ==
  [ok : {TRUE}, json : {TRUE}, data : PublicApiData] \cup
  [ok : {TRUE}, json : {FALSE}, data : {NoData}] \cup
  [ok : {FALSE}, json : {TRUE}, data : {NoData}]

----------------------------------------------------------------------------
(* State of one handler invocation *)

VARIABLES
  impl,            \* the file that serves the request
  req,             \* the request
  pc,              \* where the handler is suspended
  res,             \* what has been sent on res
  safeUsername,    \* the username given to the fetchers
  wantsV2,
  recentSolved,
  allSolvedSlugs,
  source,
  accepted,        \* the Set of the running paginated fetcher, in insertion order
  page,
  offset,
  inflight,        \* upstream calls awaiting their response
  outcome,         \* per upstream source: none, pending, threw, empty, nonempty
  started,         \* per upstream source: how many times its fetcher was called
  pageRequests,    \* page requests issued by the paginated fetcher that ran last
  everyHasNext,    \* per paginated source: every page so far reported a next page
  everyNonEmpty,   \* per paginated source: every page so far carried a submission
  recentHttp,      \* status, body kind and errors of the recent query's HTTP response
  returned,        \* per paginated source: the array its fetcher returned
  expected,        \* per paginated source: accepted slugs seen on the pages processed
  input,           \* argument of the function applied on its own
  output,          \* its result
  applied          \* whether it has been applied

vars == <<impl, req, pc, res, safeUsername, wantsV2, recentSolved, allSolvedSlugs,
          source, accepted, page, offset, inflight, outcome, started, pageRequests,
          everyHasNext, everyNonEmpty, recentHttp, returned, expected, input, output,
          applied>>

locals == <<safeUsername, wantsV2, recentSolved, allSolvedSlugs, source, accepted,
            page, offset>>

history == <<outcome, started, pageRequests, everyHasNext, everyNonEmpty, recentHttp,
             returned, expected>>

pure == <<input, output, applied>>

Sources == {"recent", "graphql", "publicApi"}

Paginated == {"graphql", "publicApi"}

NoCounts == [recentSolved |-> 0, allSolved |-> 0]

NoResponse ==
  [sent |-> 0, status |-> 0, isArray |-> FALSE, keys |-> {}, array |-> <<>>,
   source |-> "", recentSolved |-> <<>>, allSolvedSlugs |-> <<>>, counts |-> NoCounts,
   error |-> "", details |-> ""]

\* res.status(code).end()
End(r, code) == [r EXCEPT !.sent = @ + 1, !.status = code]

\* res.status(code).json({ error })
JsonError(r, code, error) ==
  [r EXCEPT !.sent = @ + 1, !.status = code, !.keys = {"error"}, !.error = error]

\* res.status(500).json({ error: 'Server error', details: err.message })
JsonServerError(r, message) ==
  [r EXCEPT !.sent = @ + 1, !.status = 500, !.keys = {"error", "details"},
            !.error = "Server error", !.details = message]

\* res.status(200).json(recentSolved)
JsonArray(r, list) ==
  [r EXCEPT !.sent = @ + 1, !.status = 200, !.isArray = TRUE, !.array = list]

\* mutant: both counts are taken from recentSolved
JsonV2RecentCount(r, src, recent, all) ==
  [r EXCEPT !.sent = @ + 1, !.status = 200,
            !.keys = {"source", "recentSolved", "allSolvedSlugs", "counts"},
            !.source = src, !.recentSolved = recent, !.allSolvedSlugs = all,
            !.counts = [recentSolved |-> Len(recent), allSolved |-> Len(recent)]]

\* res.status(200).json({ source, recentSolved, allSolvedSlugs, counts })
JsonV2(r, src, recent, all) ==
  [r EXCEPT !.sent = @ + 1, !.status = 200,
            !.keys = {"source", "recentSolved", "allSolvedSlugs", "counts"},
            !.source = src, !.recentSolved = recent, !.allSolvedSlugs = all,
            !.counts = [recentSolved |-> Len(recent), allSolved |-> Len(all)]]

NoHttp == [ok |-> FALSE, raw |-> "none", errors |-> 0]

\* the locals and the history before the handler has run
Fresh ==
  /\ res = NoResponse
  /\ safeUsername = Missing
  /\ wantsV2 = FALSE
  /\ recentSolved = <<>>
  /\ allSolvedSlugs = <<>>
  /\ source = "recent"
  /\ accepted = <<>>
  /\ page = 0
  /\ offset = 0
  /\ inflight = {}
  /\ outcome = [s \in Sources |-> "none"]
  /\ started = [s \in Sources |-> 0]
  /\ pageRequests = 0
  /\ everyHasNext = [s \in Paginated |-> TRUE]
  /\ everyNonEmpty = [s \in Paginated |-> TRUE]
  /\ recentHttp = NoHttp
  /\ returned = [s \in Paginated |-> <<>>]
  /\ expected = [s \in Paginated |-> {}]

Init ==
  /\ impl \in Files
  /\ req \in Requests
  /\ pc = "start"
  /\ Fresh
  /\ input = <<>>
  /\ output = <<>>
  /\ applied = FALSE

----------------------------------------------------------------------------
(* handler: from entry to the first await *)

\* const { username } = req.body;  throws a TypeError when req.body is undefined
DestructureThrows(file, body) == file = "fetchSolved" /\ ~body.hasBody

\* mutant: only an absent username is rejected, the empty string passes
UsernameRejectedNullOnly(file, username) == username = Missing

\* part_000: !username || typeof username !== 'string' || !username.trim()
\* fetchSolved.js: !username
UsernameRejected(file, username) ==
  IF file = "part_000" THEN ~Truthy(username) \/ ~Truthy(Trim(username))
  ELSE ~Truthy(username)

\* part_000: username.trim();  fetchSolved.js passes username on as it is
SafeUsername(file, username) == IF file = "part_000" THEN Trim(username) ELSE username

\* part_000: responseFormat === 'v2' || includeFullHistory === true
\* fetchSolved.js has no legacy mode: the object is always returned
WantsV2(file, body) ==
  IF file = "part_000"
  THEN body.responseFormat = "v2" \/ body.includeFullHistory = "true"
  ELSE TRUE

\* if (req.method === 'OPTIONS') return res.status(200).end();
Preflight ==
  /\ pc = "start"
  /\ req.method = "OPTIONS"
  /\ res' = End(res, 200)
  /\ pc' = "done"
  /\ UNCHANGED <<pure, impl, req, locals, inflight, history>>

\* mutant: the username is validated before the method
MethodNotAllowedAfterUsername ==
  /\ pc = "start"
  /\ req.method # "OPTIONS"
  /\ req.method # "POST"
  /\ res' = IF UsernameRejected(impl, req.body.username)
            THEN JsonError(res, 400, "Username is required")
            ELSE JsonError(res, 405, "Only POST allowed")
  /\ pc' = "done"
  /\ UNCHANGED <<pure, impl, req, locals, inflight, history>>

\* if (req.method !== 'POST') return res.status(405).json(...)
MethodNotAllowed ==
  /\ pc = "start"
  /\ req.method # "OPTIONS"
  /\ req.method # "POST"
  /\ res' = JsonError(res, 405, "Only POST allowed")
  /\ pc' = "done"
  /\ UNCHANGED <<pure, impl, req, locals, inflight, history>>

\* the exception leaves the async handler before any response is sent
BodyMissingCrash ==
  /\ pc = "start"
  /\ req.method = "POST"
  /\ DestructureThrows(impl, req.body)
  /\ pc' = "crashed"
  /\ UNCHANGED <<pure, impl, req, res, locals, inflight, history>>

UsernameRequired ==
  /\ pc = "start"
  /\ req.method = "POST"
  /\ ~DestructureThrows(impl, req.body)
  /\ UsernameRejected(impl, req.body.username)
  /\ res' = JsonError(res, 400, "Username is required")
  /\ pc' = "done"
  /\ UNCHANGED <<pure, impl, req, locals, inflight, history>>

RecentCall(username) ==
  [api |-> "graphql", query |-> "recent", username |-> username, offset |-> 0, limit |-> 0]

PageCall(api, username, off) ==
  [api |-> api, query |-> "submissions", username |-> username, offset |-> off,
   limit |-> pageSize]

\* await fetchRecentSubmissions(safeUsername): the query is sent
StartRecent ==
  /\ pc = "start"
  /\ req.method = "POST"
  /\ ~DestructureThrows(impl, req.body)
  /\ ~UsernameRejected(impl, req.body.username)
  /\ safeUsername' = SafeUsername(impl, req.body.username)
  /\ wantsV2' = WantsV2(impl, req.body)
  /\ inflight' = inflight \cup {RecentCall(safeUsername')}
  /\ outcome' = [outcome EXCEPT !["recent"] = "pending"]
  /\ started' = [started EXCEPT !["recent"] = @ + 1]
  /\ pc' = "awaitRecent"
  /\ UNCHANGED <<pure, recentHttp, impl, req, res, recentSolved, allSolvedSlugs, source, accepted, page,
                 offset, pageRequests, everyHasNext, everyNonEmpty, returned, expected>>

----------------------------------------------------------------------------
(* handler: the recent-submissions query comes back *)

\* Array.isArray(data?.recentSubmissionList) ? data.recentSubmissionList : []
RecentList(data) == IF data.present /\ data.isArray THEN data.list ELSE <<>>

\* fetchRecentSubmissions / fetchRecentAcceptedSubmissions, given what graphqlRequest returned
fetchRecentSubmissions(data) == dedupeRecent(RecentList(data))

\* mutant: the fetcher is started without awaiting the call before it
StartPaginatedConcurrent(src, api, pcNext) ==
  /\ accepted' = <<>>
  /\ page' = 0
  /\ offset' = 0
  /\ inflight' = inflight \cup {PageCall(api, safeUsername, 0)}
  /\ started' = [started EXCEPT ![src] = @ + 1]
  /\ pageRequests' = 1
  /\ pc' = pcNext

\* the first page request of a paginated fetcher
StartPaginated(src, api, pcNext) ==
  /\ accepted' = <<>>
  /\ page' = 0
  /\ offset' = 0
  /\ inflight' = {PageCall(api, safeUsername, 0)}
  /\ started' = [started EXCEPT ![src] = @ + 1]
  /\ pageRequests' = 1
  /\ pc' = pcNext

HttpOf(response) == [ok |-> response.ok, raw |-> response.raw, errors |-> response.errors]

\* catch (err) of the outer try: res.status(500).json(...)
RecentFails ==
  /\ pc = "awaitRecent"
  /\ \E response \in GraphQLResponses(RecentData) :
       LET r == graphqlRequest(impl, response)
       IN /\ r.threw
          /\ res' = JsonServerError(res, r.message)
          /\ recentHttp' = HttpOf(response)
  /\ inflight' = {}
  /\ outcome' = [outcome EXCEPT !["recent"] = "threw"]
  /\ pc' = "done"
  /\ UNCHANGED <<pure, impl, req, locals, started, pageRequests, everyHasNext,
                 everyNonEmpty, returned, expected>>

RecentOutcome(list) == IF Len(list) = 0 THEN "empty" ELSE "nonempty"

\* if (!wantsV2) return res.status(200).json(recentSolved);
RecentLegacy ==
  /\ pc = "awaitRecent"
  /\ ~wantsV2
  /\ \E response \in GraphQLResponses(RecentData) :
       LET r == graphqlRequest(impl, response)
       IN /\ ~r.threw
          /\ recentSolved' = fetchRecentSubmissions(r.data)
          /\ recentHttp' = HttpOf(response)
  /\ res' = JsonArray(res, recentSolved')
  /\ inflight' = {}
  /\ outcome' = [outcome EXCEPT !["recent"] = RecentOutcome(recentSolved')]
  /\ pc' = "done"
  /\ UNCHANGED <<pure, impl, req, safeUsername, wantsV2, allSolvedSlugs, source, accepted,
                 page, offset, started, pageRequests, everyHasNext, everyNonEmpty,
                 returned, expected>>

\* allSolvedSlugs = []; source = 'recent'; await fetchAllAcceptedSlugsFromGraphQL(...)
RecentThenGraphQL ==
  /\ pc = "awaitRecent"
  /\ wantsV2
  /\ \E response \in GraphQLResponses(RecentData) :
       LET r == graphqlRequest(impl, response)
       IN /\ ~r.threw
          /\ recentSolved' = fetchRecentSubmissions(r.data)
          /\ recentHttp' = HttpOf(response)
  /\ allSolvedSlugs' = <<>>
  /\ source' = "recent"
  /\ StartPaginated("graphql", "graphql", "awaitGraphQL")
  /\ outcome' = [outcome EXCEPT !["recent"] = RecentOutcome(recentSolved'),
                                !["graphql"] = "pending"]
  /\ UNCHANGED <<pure, impl, req, res, safeUsername, wantsV2, everyHasNext, everyNonEmpty,
                 returned, expected>>

----------------------------------------------------------------------------
(* handler: after the full-history sources *)

\* if (allSolvedSlugs.length) source = 'full';
SourceAfter(src, all) == IF Len(all) # 0 THEN "full" ELSE src

\* mutant: the REST source is asked whatever the GraphQL source returned
AlwaysNeedsPublicApi(all) == TRUE

\* if (!allSolvedSlugs.length) { ... fetchAllAcceptedSlugsFromPublicApi ... }
NeedsPublicApi(all) == Len(all) = 0

RECURSIVE TitleSlugs(_)
\* recentSolved.map(item => item.titleSlug)
TitleSlugs(list) ==
  IF list = <<>> THEN <<>> ELSE <<Head(list).titleSlug>> \o TitleSlugs(Tail(list))

\* mutant: the recent slugs are merged into whatever the sources returned
FinalSlugsMerged(all, recent) == dedupeSlugs(all \o TitleSlugs(recent))

\* mutant: the final fallback to the recent list is left out
FinalSlugsNoFallback(all, recent) == all

\* if (!allSolvedSlugs.length) allSolvedSlugs = dedupeSlugs(recentSolved.map(...));
FinalSlugs(all, recent) == IF Len(all) = 0 THEN dedupeSlugs(TitleSlugs(recent)) ELSE all

\* return res.status(200).json({ source, recentSolved, allSolvedSlugs, counts })
RespondV2(src, all) ==
  /\ allSolvedSlugs' = FinalSlugs(all, recentSolved)
  /\ source' = src
  /\ res' = JsonV2(res, src, recentSolved, allSolvedSlugs')
  /\ inflight' = {}
  /\ pc' = "done"

SlugsOutcome(all) == IF Len(all) = 0 THEN "empty" ELSE "nonempty"

----------------------------------------------------------------------------
(* fetchAllAcceptedSlugsFromGraphQL: a page comes back *)

\* the loop goes on: offset += pageSize and the next page is requested
GraphQLNextPage ==
  /\ pc = "awaitGraphQL"
  /\ \E response \in GraphQLResponses(GraphQLPageData) :
       LET r == graphqlRequest(impl, response)
           submissions == GraphQLSubmissions(r.data)
           hasNext == GraphQLHasNext(r.data)
       IN /\ ~r.threw
          /\ ~LoopEnds(hasNext, submissions, page)
          /\ accepted' = GraphQLCollect(accepted, submissions)
          /\ expected' = [expected EXCEPT !["graphql"] = @ \cup GraphQLAcceptedOn(submissions)]
          /\ everyHasNext' = [everyHasNext EXCEPT !["graphql"] = @ /\ hasNext]
          /\ everyNonEmpty' = [everyNonEmpty EXCEPT !["graphql"] = @ /\ Len(submissions) # 0]
  /\ page' = page + 1
  /\ offset' = offset + pageSize
  /\ inflight' = {PageCall("graphql", safeUsername, offset')}
  /\ pageRequests' = pageRequests + 1
  /\ UNCHANGED <<pure, recentHttp, impl, req, pc, res, safeUsername, wantsV2, recentSolved,
                 allSolvedSlugs, source, outcome, started, returned>>

\* mutant: the catch calls the GraphQL fetcher again
GraphQLThrowsRetry ==
  /\ pc = "awaitGraphQL"
  /\ \E response \in GraphQLResponses(GraphQLPageData) :
       graphqlRequest(impl, response).threw
  /\ allSolvedSlugs' = <<>>
  /\ StartPaginated("graphql", "graphql", "awaitGraphQL")
  /\ UNCHANGED <<pure, recentHttp, impl, req, res, safeUsername, wantsV2, recentSolved, source,
                 outcome, everyHasNext, everyNonEmpty, returned, expected>>

\* mutant: no inner try/catch, the error reaches the outer catch
GraphQLThrowsUncaught ==
  /\ pc = "awaitGraphQL"
  /\ \E response \in GraphQLResponses(GraphQLPageData) :
       LET r == graphqlRequest(impl, response)
       IN /\ r.threw
          /\ res' = JsonServerError(res, r.message)
  /\ inflight' = {}
  /\ outcome' = [outcome EXCEPT !["graphql"] = "threw"]
  /\ pc' = "done"
  /\ UNCHANGED <<pure, recentHttp, impl, req, locals, started, pageRequests,
                 everyHasNext, everyNonEmpty, returned, expected>>

\* graphqlRequest throws inside the fetcher; the handler's catch resets allSolvedSlugs
\* and the REST source is started
GraphQLThrows ==
  /\ pc = "awaitGraphQL"
  /\ \E response \in GraphQLResponses(GraphQLPageData) :
       graphqlRequest(impl, response).threw
  /\ allSolvedSlugs' = <<>>
  /\ NeedsPublicApi(allSolvedSlugs')
  /\ StartPaginated("publicApi", "rest", "awaitPublicApi")
  /\ outcome' = [outcome EXCEPT !["graphql"] = "threw", !["publicApi"] = "pending"]
  /\ UNCHANGED <<pure, recentHttp, impl, req, res, safeUsername, wantsV2, recentSolved, source,
                 everyHasNext, everyNonEmpty, returned, expected>>

\* the fetcher returns a non-empty array: source = 'full' and the response is sent
GraphQLReturnsFull ==
  /\ pc = "awaitGraphQL"
  /\ \E response \in GraphQLResponses(GraphQLPageData) :
       LET r == graphqlRequest(impl, response)
           submissions == GraphQLSubmissions(r.data)
           hasNext == GraphQLHasNext(r.data)
           all == GraphQLResult(GraphQLCollect(accepted, submissions))
       IN /\ ~r.threw
          /\ LoopEnds(hasNext, submissions, page)
          /\ ~NeedsPublicApi(all)
          /\ accepted' = GraphQLCollect(accepted, submissions)
          /\ RespondV2(SourceAfter(source, all), all)
          /\ outcome' = [outcome EXCEPT !["graphql"] = SlugsOutcome(all)]
          /\ everyHasNext' = [everyHasNext EXCEPT !["graphql"] = @ /\ hasNext]
          /\ everyNonEmpty' = [everyNonEmpty EXCEPT !["graphql"] = @ /\ Len(submissions) # 0]
          /\ returned' = [returned EXCEPT !["graphql"] = all]
          /\ expected' = [expected EXCEPT !["graphql"] = @ \cup GraphQLAcceptedOn(submissions)]
  /\ UNCHANGED <<pure, recentHttp, impl, req, safeUsername, wantsV2, recentSolved, page, offset, started,
                 pageRequests>>

\* the fetcher returns an empty array: the REST source is started
GraphQLReturnsEmpty ==
  /\ pc = "awaitGraphQL"
  /\ \E response \in GraphQLResponses(GraphQLPageData) :
       LET r == graphqlRequest(impl, response)
           submissions == GraphQLSubmissions(r.data)
           hasNext == GraphQLHasNext(r.data)
           all == GraphQLResult(GraphQLCollect(accepted, submissions))
       IN /\ ~r.threw
          /\ LoopEnds(hasNext, submissions, page)
          /\ NeedsPublicApi(all)
          /\ allSolvedSlugs' = all
          /\ source' = SourceAfter(source, all)
          /\ outcome' = [outcome EXCEPT !["graphql"] = SlugsOutcome(all),
                                        !["publicApi"] = "pending"]
          /\ everyHasNext' = [everyHasNext EXCEPT !["graphql"] = @ /\ hasNext]
          /\ everyNonEmpty' = [everyNonEmpty EXCEPT !["graphql"] = @ /\ Len(submissions) # 0]
          /\ returned' = [returned EXCEPT !["graphql"] = all]
          /\ expected' = [expected EXCEPT !["graphql"] = @ \cup GraphQLAcceptedOn(submissions)]
  /\ StartPaginated("publicApi", "rest", "awaitPublicApi")
  /\ UNCHANGED <<pure, recentHttp, impl, req, res, safeUsername, wantsV2, recentSolved>>

----------------------------------------------------------------------------
(* fetchAllAcceptedSlugsFromPublicApi: a page comes back *)

\* if (!response.ok) throw ...;  await response.json() rejects on a non-JSON body
PublicApiThrew(response) == ~response.ok \/ ~response.json

PublicApiNextPage ==
  /\ pc = "awaitPublicApi"
  /\ \E response \in PublicApiResponses :
       LET submissions == PublicApiSubmissions(response.data)
           hasNext == PublicApiHasNext(response.data)
       IN /\ ~PublicApiThrew(response)
          /\ ~LoopEnds(hasNext, submissions, page)
          /\ accepted' = PublicApiCollect(accepted, submissions)
          /\ expected' = [expected EXCEPT !["publicApi"] = @ \cup PublicApiAcceptedOn(submissions)]
          /\ everyHasNext' = [everyHasNext EXCEPT !["publicApi"] = @ /\ hasNext]
          /\ everyNonEmpty' = [everyNonEmpty EXCEPT !["publicApi"] = @ /\ Len(submissions) # 0]
  /\ page' = page + 1
  /\ offset' = offset + pageSize
  /\ inflight' = {PageCall("rest", safeUsername, offset')}
  /\ pageRequests' = pageRequests + 1
  /\ UNCHANGED <<pure, recentHttp, impl, req, pc, res, safeUsername, wantsV2, recentSolved,
                 allSolvedSlugs, source, outcome, started, returned>>

\* mutant: the catch keeps what the fetcher had accumulated
PublicApiThrowsKeepsPartial ==
  /\ pc = "awaitPublicApi"
  /\ \E response \in PublicApiResponses : PublicApiThrew(response)
  /\ RespondV2(SourceAfter(source, accepted), accepted)
  /\ outcome' = [outcome EXCEPT !["publicApi"] = "threw"]
  /\ UNCHANGED <<pure, recentHttp, impl, req, safeUsername, wantsV2, recentSolved, accepted, page, offset,
                 started, pageRequests, everyHasNext, everyNonEmpty, returned, expected>>

\* the fetcher throws; the handler's catch resets allSolvedSlugs and answers
PublicApiThrows ==
  /\ pc = "awaitPublicApi"
  /\ \E response \in PublicApiResponses : PublicApiThrew(response)
  /\ RespondV2(source, <<>>)
  /\ outcome' = [outcome EXCEPT !["publicApi"] = "threw"]
  /\ UNCHANGED <<pure, recentHttp, impl, req, safeUsername, wantsV2, recentSolved, accepted, page, offset,
                 started, pageRequests, everyHasNext, everyNonEmpty, returned, expected>>

\* the fetcher returns; the handler answers
PublicApiReturns ==
  /\ pc = "awaitPublicApi"
  /\ \E response \in PublicApiResponses :
       LET submissions == PublicApiSubmissions(response.data)
           hasNext == PublicApiHasNext(response.data)
           all == PublicApiResult(PublicApiCollect(accepted, submissions))
       IN /\ ~PublicApiThrew(response)
          /\ LoopEnds(hasNext, submissions, page)
          /\ accepted' = PublicApiCollect(accepted, submissions)
          /\ RespondV2(SourceAfter(source, all), all)
          /\ outcome' = [outcome EXCEPT !["publicApi"] = SlugsOutcome(all)]
          /\ everyHasNext' = [everyHasNext EXCEPT !["publicApi"] = @ /\ hasNext]
          /\ everyNonEmpty' = [everyNonEmpty EXCEPT !["publicApi"] = @ /\ Len(submissions) # 0]
          /\ returned' = [returned EXCEPT !["publicApi"] = all]
          /\ expected' = [expected EXCEPT !["publicApi"] = @ \cup PublicApiAcceptedOn(submissions)]
  /\ UNCHANGED <<pure, recentHttp, impl, req, safeUsername, wantsV2, recentSolved, page, offset, started,
                 pageRequests>>

----------------------------------------------------------------------------

Next ==
  \/ Preflight
  \/ MethodNotAllowed
  \/ BodyMissingCrash
  \/ UsernameRequired
  \/ StartRecent
  \/ RecentFails
  \/ RecentLegacy
  \/ RecentThenGraphQL
  \/ GraphQLNextPage
  \/ GraphQLThrows
  \/ GraphQLReturnsFull
  \/ GraphQLReturnsEmpty
  \/ PublicApiNextPage
  \/ PublicApiThrows
  \/ PublicApiReturns

Spec == Init /\ [][Next]_vars

----------------------------------------------------------------------------
(* fetchRecentSubmissions applied on its own to bounded upstream lists *)

MaxRecentLen == 3

RecentSlugs == {SlugA, SlugAPadded, SlugB, Missing}

RecentTimestamps == {1, 2, 5}

RecentItems == {Item(slug, ts) : slug \in RecentSlugs, ts \in RecentTimestamps}

RecentLists == UNION {[1..n -> RecentItems] : n \in 0..MaxRecentLen}

InitRecent ==
  /\ impl = "part_000"
  /\ req = [method |-> "POST", body |-> NoBody]
  /\ pc = "pure"
  /\ Fresh
  /\ input \in RecentLists
  /\ output = <<>>
  /\ applied = FALSE

ApplyRecent ==
  /\ pc = "pure"
  /\ ~applied
  /\ output' = dedupeRecent(input)
  /\ applied' = TRUE
  /\ UNCHANGED <<input, impl, req, pc, res, locals, inflight, history>>

NextRecent == ApplyRecent

SpecRecent == InitRecent /\ [][NextRecent]_vars

----------------------------------------------------------------------------
(* The deduplicating functions applied to a list of records and to a permutation of it *)

MaxOrderLen == 3

TitleT == <<"T">>

\* records of recentSubmissionList: equal slugs, equal timestamps and a title occur
OrderItems ==
  { Item(SlugA, 1), Item(SlugA, 2), Item(SlugB, 1), Item(SlugB, 2), Item(Missing, 2),
    [title |-> TitleT, titleSlug |-> SlugAPadded, timestamp |-> 2] }

OrderSlugs == {SlugA, SlugAPadded, SlugB, Blank, Missing}

OrderSubs ==
  {Sub(SlugA, "Accepted"), Sub(SlugAPadded, "Accepted"), Sub(SlugB, "Accepted"),
   Sub(SlugB, "Wrong Answer"), Sub(Blank, "Accepted")}

OrderDumps ==
  {Dump(SlugA, "Accepted", ""), Dump(SlugAPadded, "", "Accepted"),
   Dump(SlugB, "Accepted", ""), Dump(SlugB, "Wrong Answer", "Accepted"),
   Dump(Blank, "Accepted", "")}

OrderDomain(fn) ==
  CASE fn = "recent" -> OrderItems
    [] fn = "dedupeSlugs" -> OrderSlugs
    [] fn = "graphql" -> OrderSubs
    [] fn = "publicApi" -> OrderDumps

OrderFunctions == {"recent", "dedupeSlugs", "graphql", "publicApi"}

Reorderings(n) == {p \in [1..n -> 1..n] : \A i, j \in 1..n : p[i] = p[j] => i = j}

Permuted(list, p) == [i \in 1..Len(list) |-> list[p[i]]]

\* the function named fn applied to the records of one upstream response
Deduplicate(fn, list) ==
  CASE fn = "recent" -> dedupeRecent(list)
    [] fn = "dedupeSlugs" -> dedupeSlugs(list)
    [] fn = "graphql" -> GraphQLResult(GraphQLCollect(<<>>, list))
    [] fn = "publicApi" -> PublicApiResult(PublicApiCollect(<<>>, list))

InitOrder ==
  /\ impl = "part_000"
  /\ req = [method |-> "POST", body |-> NoBody]
  /\ pc = "pure"
  /\ Fresh
  /\ \E fn \in OrderFunctions, n \in 0..MaxOrderLen :
       \E list \in [1..n -> OrderDomain(fn)], p \in Reorderings(n) :
         input = [fn |-> fn, a |-> list, b |-> Permuted(list, p)]
  /\ output = <<>>
  /\ applied = FALSE

ApplyOrder ==
  /\ pc = "pure"
  /\ ~applied
  /\ output' = [a |-> Deduplicate(input.fn, input.a), b |-> Deduplicate(input.fn, input.b)]
  /\ applied' = TRUE
  /\ UNCHANGED <<input, impl, req, pc, res, locals, inflight, history>>

NextOrder == ApplyOrder

SpecOrder == InitOrder /\ [][NextOrder]_vars

----------------------------------------------------------------------------
(* graphqlRequest applied on its own to the HTTP responses of the GraphQL endpoint *)

MaxErrors == 2

\* the status class, the kind of body, the length of json.errors and json.data
RequestResponses ==
  [ok : BOOLEAN, raw : {"json"}, errors : 0..MaxErrors,
   data : RecentData \cup GraphQLPageData \cup {NoData}] \cup
  [ok : BOOLEAN, raw : {"empty", "nonjson"}, errors : {0}, data : {NoData}]

InitRequest ==
  /\ impl \in Files
  /\ req = [method |-> "POST", body |-> NoBody]
  /\ pc = "pure"
  /\ Fresh
  /\ input \in RequestResponses
  /\ output = <<>>
  /\ applied = FALSE

ApplyRequest ==
  /\ pc = "pure"
  /\ ~applied
  /\ output' = graphqlRequest(impl, input)
  /\ applied' = TRUE
  /\ UNCHANGED <<input, impl, req, pc, res, locals, inflight, history>>

NextRequest == ApplyRequest

SpecRequest == InitRequest /\ [][NextRequest]_vars

----------------------------------------------------------------------------
(* Vocabulary of the properties *)

Done == pc = "done"

\* the request opts in to the object format
IsV2Request ==
  req.body.responseFormat = "v2" \/ req.body.includeFullHistory = "true"

\* a POST whose body carries a username with a non-blank character
ValidPost ==
  /\ req.method = "POST"
  /\ req.body.hasBody
  /\ Truthy(req.body.username)
  /\ Truthy(Trim(req.body.username))

UsernameMissingOrEmpty == req.body.username \in {Missing, Empty}

RecentSucceeded == outcome["recent"] \in {"empty", "nonempty"}

\* the HTTP response to the recent query was non-2xx, carried errors or was no JSON
RecentHttpFailed ==
  /\ recentHttp.raw # "none"
  /\ \/ ~recentHttp.ok
     \/ recentHttp.errors > 0
     \/ recentHttp.raw = "nonjson"

V2Keys == {"source", "recentSolved", "allSolvedSlugs", "counts"}

IsV2Object(r) == ~r.isArray /\ r.keys = V2Keys

SlugSetOf(list) == {list[i].titleSlug : i \in 1..Len(list)}

----------------------------------------------------------------------------
(* Properties of the handler, checked under Spec *)

\* C1: in a v2 request whose recent fetch succeeded, a throwing GraphQL source is
\* followed by an attempt on the REST source, and when that one throws or returns
\* nothing the response has source "recent" and allSolvedSlugs holds exactly the
\* slugs of recentSolved, each once.
C1_FallbackToRecent ==
  (IsV2Request /\ RecentSucceeded) =>
    /\ outcome["graphql"] = "threw" => started["publicApi"] = 1
    /\ (Done /\ outcome["graphql"] = "threw" /\ outcome["publicApi"] \in {"threw", "empty"})
         => /\ res.status = 200
            /\ res.source = "recent"
            /\ NoDup(res.allSolvedSlugs)
            /\ Range(res.allSolvedSlugs) = SlugSetOf(res.recentSolved)

C1_Witness ==
  /\ Done
  /\ IsV2Request
  /\ outcome["recent"] = "nonempty"
  /\ outcome["graphql"] = "threw"
  /\ outcome["publicApi"] = "threw"
  /\ res.source = "recent"
  /\ Len(res.allSolvedSlugs) = 2

\* C2 as stated: every POST with a username and responseFormat "v2" is answered with
\* the object of four keys whose counts match, whatever the upstreams do.
C2_AlwaysObject ==
  (Done /\ ValidPost /\ req.body.responseFormat = "v2") =>
    /\ IsV2Object(res)
    /\ res.counts.recentSolved = Len(res.recentSolved)
    /\ res.counts.allSolved = Len(res.allSolvedSlugs)

\* C2 amended: every POST with a username and responseFormat "v2" whose recent fetch
\* succeeded is answered 200 with the object of four keys, counts.recentSolved being
\* the length of recentSolved and counts.allSolved the length of allSolvedSlugs,
\* whatever the two full-history sources do.
C2_ObjectWhenRecentSucceeds ==
  (Done /\ ValidPost /\ req.body.responseFormat = "v2" /\ RecentSucceeded) =>
    /\ res.status = 200
    /\ IsV2Object(res)
    /\ res.counts.recentSolved = Len(res.recentSolved)
    /\ res.counts.allSolved = Len(res.allSolvedSlugs)

C2_Witness ==
  /\ Done
  /\ ValidPost
  /\ req.body.responseFormat = "v2"
  /\ outcome["graphql"] = "nonempty"
  /\ res.counts.recentSolved = 2
  /\ res.counts.allSolved = 1

\* C3: a POST with a username and neither responseFormat nor includeFullHistory,
\* whose recent fetch succeeded, is answered 200 with a bare array equal to
\* recentSolved and never with an object that has a source key.
C3_LegacyBareArray ==
  (Done /\ ValidPost /\ ~IsV2Request /\ RecentSucceeded) =>
    /\ res.status = 200
    /\ res.isArray
    /\ res.array = recentSolved
    /\ "source" \notin res.keys

\* C4 as stated: a missing or empty username is answered 400 whatever the method,
\* OPTIONS excepted, which is answered 200.
C4_Always400 ==
  (Done /\ UsernameMissingOrEmpty) =>
    res.status = IF req.method = "OPTIONS" THEN 200 ELSE 400

\* C4 amended: a POST whose body carries a missing or empty username is answered 400;
\* with such a username OPTIONS is answered 200 and every other method 405; a POST
\* without a body is answered 400 by part_000, while fetchSolved.js throws on it
\* before anything is sent.
C4_UsernameRequired ==
  (pc \in {"done", "crashed"} /\ UsernameMissingOrEmpty) =>
    IF req.method = "OPTIONS" THEN Done /\ res.status = 200
    ELSE IF req.method # "POST" THEN Done /\ res.status = 405
    ELSE IF req.body.hasBody \/ impl = "part_000" THEN Done /\ res.status = 400
    ELSE pc = "crashed" /\ res = NoResponse

C4_Witness ==
  /\ Done
  /\ req.method = "POST"
  /\ req.body.hasBody
  /\ req.body.username = Empty
  /\ res.status = 400

\* C5: a request whose method is neither OPTIONS nor POST is answered 405 with the
\* body {error: "Only POST allowed"}, whatever its body holds.
C5_MethodNotAllowed ==
  (pc # "start" /\ req.method \notin {"OPTIONS", "POST"}) =>
    /\ Done
    /\ res.sent = 1
    /\ res.status = 405
    /\ ~res.isArray
    /\ res.keys = {"error"}
    /\ res.error = "Only POST allowed"

C5_Witness ==
  /\ Done
  /\ req.method = "PUT"
  /\ req.body.hasBody
  /\ req.body.username = Empty
  /\ res.status = 405

\* C6: when the recent query's response is non-2xx, carries GraphQL errors or is no
\* JSON, the request ends with status 500 and a body {error, details}, in legacy and
\* in v2 mode, and no full-history source is started.
C6_RecentFailureIs500 ==
  RecentHttpFailed =>
    /\ Done
    /\ res.sent = 1
    /\ res.status = 500
    /\ ~res.isArray
    /\ res.keys = {"error", "details"}
    /\ started["graphql"] = 0
    /\ started["publicApi"] = 0
    /\ inflight = {}

C6_Witness ==
  /\ Done
  /\ IsV2Request
  /\ impl = "part_000"
  /\ ~recentHttp.ok
  /\ recentHttp.raw = "json"
  /\ res.status = 500

\* C7: in a v2 request whose recent fetch succeeded no status other than 200 is ever
\* sent, whatever the GraphQL and the REST full-history sources do.
C7_OptionalSourcesNever500 ==
  (IsV2Request /\ RecentSucceeded) =>
    /\ res.sent = 0 \/ res.status = 200
    /\ Done => res.sent = 1
    /\ pc # "crashed"

C7_Witness ==
  /\ Done
  /\ IsV2Request
  /\ pageRequests > 1
  /\ outcome["graphql"] = "threw"
  /\ outcome["publicApi"] = "threw"
  /\ res.status = 200

\* C9 as stated: a paginated source whose every page reports a next page returns
\* after exactly 500 page requests.
C9_Exactly500WhenHasNext ==
  [][\A s \in Paginated :
       (outcome[s] = "pending" /\ outcome'[s] \in {"empty", "nonempty"} /\ everyHasNext'[s])
         => pageRequests = maxPages]_vars

\* C9 amended: a paginated source whose every page reports a next page and carries at
\* least one submission returns, without throwing, after exactly 500 page requests,
\* and no source ever issues more than 500.
C9_Exactly500WhenHasNextAndNonEmpty ==
  [][/\ pageRequests' <= maxPages
     /\ \A s \in Paginated :
          (outcome[s] = "pending" /\ outcome'[s] \in {"empty", "nonempty"})
            => ((everyHasNext'[s] /\ everyNonEmpty'[s]) => pageRequests = maxPages)]_vars

C9_Witness ==
  /\ Done
  /\ outcome["graphql"] = "empty"
  /\ everyHasNext["graphql"] /\ everyNonEmpty["graphql"]
  /\ outcome["publicApi"] = "nonempty"
  /\ everyHasNext["publicApi"] /\ everyNonEmpty["publicApi"]
  /\ pageRequests = 500
  /\ offset = 9980

\* C10: the REST source is started only after the GraphQL source threw or returned
\* nothing; once the GraphQL source has returned a non-empty set no request goes to
\* the REST endpoint.
C10_PublicApiOnlyAfterNothing ==
  /\ started["publicApi"] > 0 => outcome["graphql"] \in {"threw", "empty"}
  /\ outcome["graphql"] = "nonempty" =>
       /\ started["publicApi"] = 0
       /\ outcome["publicApi"] = "none"
       /\ \A call \in inflight : call.api # "rest"

C10_Witness ==
  /\ Done
  /\ outcome["graphql"] = "nonempty"
  /\ started["publicApi"] = 0
  /\ res.source = "full"

----------------------------------------------------------------------------
(* Properties of fetchRecentSubmissions, checked under SpecRecent *)

\* the input records that carry the slug, once trimmed
RecordsOf(slug) ==
  {k \in 1..Len(input) : Truthy(input[k].titleSlug) /\ Trim(input[k].titleSlug) = slug}

InputSlugs ==
  {Trim(input[k].titleSlug) : k \in {j \in 1..Len(input) : Truthy(input[j].titleSlug)}}

\* C8: the output of the recent fetch holds each titleSlug of the input exactly once,
\* the record kept for a slug carries the highest timestamp among the input records
\* of that slug, and the output is ordered by non-increasing timestamp.
C8_DedupedNewestSorted ==
  applied =>
    /\ \A i, j \in 1..Len(output) : output[i].titleSlug = output[j].titleSlug => i = j
    /\ SlugSetOf(output) = InputSlugs \ {Empty}
    /\ \A i \in 1..Len(output) :
         /\ \E k \in RecordsOf(output[i].titleSlug) : input[k].timestamp = output[i].timestamp
         /\ \A k \in RecordsOf(output[i].titleSlug) : input[k].timestamp <= output[i].timestamp
    /\ \A i, j \in 1..Len(output) : i < j => output[i].timestamp >= output[j].timestamp

C8_Witness ==
  /\ applied
  /\ input = <<Item(SlugA, 1), Item(SlugA, 5), Item(SlugB, 2)>>
  /\ output = <<[title |-> SlugA, titleSlug |-> SlugA, timestamp |-> 5],
                [title |-> SlugB, titleSlug |-> SlugB, timestamp |-> 2]>>

----------------------------------------------------------------------------
(* Properties of the deduplicating functions, checked under SpecOrder *)

\* the slugs of an output: of its records for the recent fetch, its entries otherwise
OutputSlugs(fn, out) == IF fn = "recent" THEN SlugSetOf(out) ELSE Range(out)

DistinctTimestamps(list) ==
  \A i, j \in 1..Len(list) : list[i].timestamp = list[j].timestamp => i = j

\* C11 as stated: whatever the order of the input records, the recent fetch returns
\* the same records in the same order, and the full-history fetchers and dedupeSlugs
\* return the same set of slugs.
C11_OrderIndependent ==
  applied =>
    /\ OutputSlugs(input.fn, output.a) = OutputSlugs(input.fn, output.b)
    /\ input.fn = "recent" => output.a = output.b

\* C11 amended: whatever the order of the input records, the recent fetch, the
\* full-history fetchers and dedupeSlugs return the same set of slugs; the recent
\* fetch returns the same records in the same order when no two input records carry
\* the same timestamp.
C11_OrderIndependentSets ==
  applied =>
    /\ OutputSlugs(input.fn, output.a) = OutputSlugs(input.fn, output.b)
    /\ (input.fn = "recent" /\ DistinctTimestamps(input.a)) => output.a = output.b

C11_Witness ==
  /\ applied
  /\ input.fn = "recent"
  /\ input.a = <<Item(SlugA, 1), Item(SlugA, 2), Item(SlugB, 2)>>
  /\ input.b = <<Item(SlugB, 2), Item(SlugA, 2), Item(SlugA, 1)>>
  /\ output.a # output.b
  /\ SlugSetOf(output.a) = {SlugA, SlugB}

----------------------------------------------------------------------------
(* Further properties of the handler, checked under Spec *)

AnyFull == \E s \in Paginated : outcome[s] = "nonempty"

\* the array returned by the first paginated source that returned a non-empty one
FirstFull ==
  IF outcome["graphql"] = "nonempty" THEN returned["graphql"] ELSE returned["publicApi"]

IsV2Success == Done /\ res.sent = 1 /\ res.status = 200 /\ IsV2Object(res)

\* C12: in a v2 response source is "full" exactly when the GraphQL source or, failing
\* that, the REST source returned a non-empty array; allSolvedSlugs is then exactly that
\* array, without the recent slugs; in every other v2 response source is "recent".
C12_SourceFullIffSourceNonEmpty ==
  IsV2Success =>
    /\ res.source \in {"full", "recent"}
    /\ res.source = "full" <=> AnyFull
    /\ AnyFull => res.allSolvedSlugs = FirstFull

C12_Witness ==
  /\ IsV2Success
  /\ outcome["graphql"] = "threw"
  /\ outcome["publicApi"] = "nonempty"
  /\ res.source = "full"
  /\ Len(res.recentSolved) = 2
  /\ res.allSolvedSlugs = <<SlugA>>

\* the call a suspended handler is waiting for
AwaitedCall ==
  CASE pc = "awaitRecent" -> {RecentCall(safeUsername)}
    [] pc = "awaitGraphQL" ->
         {[api |-> "graphql", query |-> "submissions", username |-> safeUsername,
           offset |-> 20 * page, limit |-> 20]}
    [] pc = "awaitPublicApi" ->
         {[api |-> "rest", query |-> "submissions", username |-> safeUsername,
           offset |-> 20 * page, limit |-> 20]}
    [] OTHER -> {}

\* C13: at most one upstream call is in flight; it is the recent query, then the page
\* of the GraphQL source, then the page of the REST source; page k of a paginated source
\* is in flight only when the k pages before it have been processed, and it carries
\* offset 20*k and limit 20.
C13_OneCallAtATime ==
  /\ Cardinality(inflight) <= 1
  /\ inflight = AwaitedCall
  /\ pc = "awaitRecent" => \A s \in Paginated : started[s] = 0
  /\ pc = "awaitGraphQL" =>
        /\ outcome["recent"] \in {"empty", "nonempty"}
        /\ started["publicApi"] = 0
        /\ pageRequests = page + 1
  /\ pc = "awaitPublicApi" =>
        /\ outcome["recent"] \in {"empty", "nonempty"}
        /\ outcome["graphql"] \in {"threw", "empty"}
        /\ pageRequests = page + 1

C13_Witness ==
  /\ pc = "awaitPublicApi"
  /\ page = 2
  /\ inflight = {PageCall("rest", Trim(UserBob), 40)}
  /\ outcome["graphql"] = "empty"

\* the step in which the fetcher of s returns
Returns(s) == outcome[s] = "pending" /\ outcome'[s] \in {"empty", "nonempty"}

\* the step in which the fetcher of s requests its next page
NextPageOf(s) == outcome[s] = "pending" /\ outcome'[s] = "pending" /\ page' # page

\* what Returns(s) hands back is exactly the accepted slugs of the pages processed
ReturnsExpected(s) == NoDup(returned'[s]) /\ Range(returned'[s]) = expected'[s]

\* C14 as stated: a paginated fetch returns exactly the non-empty trimmed slugs of the
\* Accepted submissions of the pages it requested; the page after which it returns is
\* one that reports no next page or carries no submissions, and every page before it
\* reported a next page and carried submissions.
C14_StopsAtFirstLastPage ==
  [][\A s \in Paginated :
       /\ Returns(s) =>
            /\ ReturnsExpected(s)
            /\ ~(everyHasNext'[s] /\ everyNonEmpty'[s])
       /\ NextPageOf(s) =>
            /\ page' = page + 1
            /\ everyHasNext'[s] /\ everyNonEmpty'[s]]_vars

\* C14 amended: the same, except that the fetch also returns after its 500th page
\* (page 499) whatever that page reports.
C14_StopsAtFirstLastPageOrCap ==
  [][\A s \in Paginated :
       /\ Returns(s) =>
            /\ ReturnsExpected(s)
            /\ ~(everyHasNext'[s] /\ everyNonEmpty'[s]) \/ page = maxPages - 1
       /\ NextPageOf(s) =>
            /\ page' = page + 1
            /\ page' < maxPages
            /\ everyHasNext'[s] /\ everyNonEmpty'[s]]_vars

C14_Witness ==
  /\ Done
  /\ outcome["graphql"] = "empty"
  /\ expected["graphql"] = {}
  /\ outcome["publicApi"] = "nonempty"
  /\ page = 1
  /\ ~everyHasNext["publicApi"]
  /\ everyNonEmpty["publicApi"]
  /\ returned["publicApi"] = <<SlugA>>
  /\ expected["publicApi"] = {SlugA}


\* how far the handler has come
Rank(p) ==
  CASE p = "start" -> 0
    [] p = "awaitRecent" -> 1
    [] p = "awaitGraphQL" -> 2
    [] p = "awaitPublicApi" -> 3
    [] OTHER -> 4

\* C16: no upstream call is retried: every source is started at most once, a source
\* that threw is never started or asked again, the offsets requested from one source
\* strictly increase, and after a source threw the handler is further on than before.
C16_NoRetry ==
  [][/\ \A s \in Sources :
          /\ started'[s] <= 1
          /\ outcome[s] = "threw" => outcome'[s] = "threw" /\ started'[s] = started[s]
          /\ (outcome[s] # "threw" /\ outcome'[s] = "threw") => Rank(pc') > Rank(pc)
     /\ \A c \in inflight, d \in inflight' :
          (c.api = d.api /\ c.query = d.query) => d.offset > c.offset
     /\ Rank(pc') >= Rank(pc)]_vars

C16_Witness ==
  /\ Done
  /\ res.status = 200
  /\ page = 2
  /\ outcome["graphql"] = "threw"
  /\ expected["graphql"] # {}
  /\ outcome["publicApi"] = "threw"
  /\ \A s \in Sources : started[s] = 1

\* C17: in a v2 success response allSolvedSlugs has no duplicate and no missing, empty
\* or whitespace-only entry, and it is non-empty when recentSolved is non-empty.
C17_CleanSlugs ==
  IsV2Success =>
    /\ NoDup(res.allSolvedSlugs)
    /\ \A i \in 1..Len(res.allSolvedSlugs) :
         /\ res.allSolvedSlugs[i] # Missing
         /\ Trim(res.allSolvedSlugs[i]) # Empty
    /\ Len(res.recentSolved) > 0 => Len(res.allSolvedSlugs) > 0

C17_Witness ==
  /\ IsV2Success
  /\ outcome["graphql"] = "empty"
  /\ ~everyHasNext["graphql"] /\ everyNonEmpty["graphql"]
  /\ outcome["publicApi"] = "threw"
  /\ Len(res.recentSolved) = 2
  /\ res.allSolvedSlugs = <<SlugA, SlugB>>

\* the source s threw after at least one accepted slug had been accumulated
Discarded(s) == outcome[s] = "threw" /\ expected[s] # {}

\* C18: when a paginated source throws after it had accumulated slugs, none of them is
\* kept: after the GraphQL source the handler goes on to the REST source with an empty
\* allSolvedSlugs and the response carries what the REST source returned or, failing
\* that, the recent slugs; after the REST source the response carries the recent slugs.
C18_PartialPagesDiscarded ==
  /\ Discarded("graphql") =>
       /\ started["publicApi"] = 1
       /\ pc = "awaitPublicApi" => allSolvedSlugs = <<>> /\ source = "recent"
       /\ Done =>
            /\ IsV2Success
            /\ res.source = IF outcome["publicApi"] = "nonempty" THEN "full" ELSE "recent"
            /\ res.allSolvedSlugs =
                 IF outcome["publicApi"] = "nonempty" THEN returned["publicApi"]
                 ELSE dedupeSlugs(TitleSlugs(res.recentSolved))
  /\ Discarded("publicApi") =>
       /\ IsV2Success
       /\ res.source = "recent"
       /\ res.allSolvedSlugs = dedupeSlugs(TitleSlugs(res.recentSolved))

C18_Witness ==
  /\ Done
  /\ Discarded("graphql")
  /\ Discarded("publicApi")
  /\ page = 1
  /\ res.recentSolved = <<>>
  /\ res.allSolvedSlugs = <<>>
  /\ res.source = "recent"

\* C19: every invocation of the handler ends with exactly one response sent, and once
\* the response is sent no upstream call is in flight or issued.
C19_ExactlyOneResponse ==
  /\ res.sent <= 1
  /\ pc \in {"done", "crashed"} => res.sent = 1 /\ inflight = {}
  /\ res.sent = 1 => pc = "done" /\ inflight = {}

\* C20: a request answered 200 to OPTIONS, 405 or 400 has issued no upstream call; a
\* POST that does not opt in to the object format issues the recent query only, once,
\* and never starts a full-history source.
C20_NoUpstreamCalls ==
  /\ (Done /\ (req.method = "OPTIONS" \/ res.status \in {400, 405})) =>
       /\ \A s \in Sources : started[s] = 0
       /\ recentHttp = NoHttp
  /\ (ValidPost /\ ~IsV2Request) =>
       /\ \A s \in Paginated : started[s] = 0
       /\ \A c \in inflight : c.query = "recent"
       /\ Done => started["recent"] = 1

----------------------------------------------------------------------------
(* Properties of graphqlRequest, checked under SpecRequest *)

\* C15 as stated: graphqlRequest throws exactly when the status is not 2xx, or the
\* body carries a non-empty errors array, or the body is not JSON, an empty body
\* included; otherwise it returns the data of the body.
C15_ThrowsUnlessCleanJson ==
  applied =>
    /\ output.threw <=> (~input.ok \/ input.errors > 0 \/ input.raw # "json")
    /\ ~output.threw => output.data = input.data

\* C15 amended: graphqlRequest throws exactly when the status is not 2xx, or the body
\* carries a non-empty errors array, or the body is not empty and not JSON, or the body
\* is empty and the file is fetchSolved.js; part_000 returns {} for an empty 2xx body.
C15_ThrowsUnlessCleanJsonOrEmptyText ==
  applied =>
    /\ output.threw <=>
         \/ ~input.ok
         \/ input.raw = "json" /\ input.errors > 0
         \/ input.raw = "nonjson"
         \/ input.raw = "empty" /\ impl = "fetchSolved"
    /\ ~output.threw =>
         output.data = IF input.raw = "json" THEN input.data ELSE NoData

C15_Witness ==
  /\ applied
  /\ impl = "part_000"
  /\ input.ok
  /\ input.raw = "empty"
  /\ ~output.threw
  /\ output.data = NoData


=============================================================================
